---- MODULE Spec2Model ----
(***************************************************************************)
(* The action-dispatch loop of alertsinua-cli (App::run), the status fetch  *)
(* of DataRepository and the region store (Ukraine) it writes.              *)
(***************************************************************************)
EXTENDS Integers, Sequences, FiniteSets, TLC

\* ------------------------------------------------------------------------
\* Program constants
\* ------------------------------------------------------------------------

\* RegionArrayVec = ArrayVec<Region, 27>
NumRegions == 27

\* AlertsResponseString = ArrayString<27>: capacity of the returned string
CAP == 27

\* ------------------------------------------------------------------------
\* Bounds of the model
\* ------------------------------------------------------------------------

\* quote characters on either side of the response text: 0..MaxQuotes
MaxQuotes == 1

\* the response text is NumRegions - MaxLenDelta .. NumRegions + MaxLenDelta long
MaxLenDelta == 1

\* ------------------------------------------------------------------------
\* Characters and strings (a string is a sequence of one-character strings)
\* ------------------------------------------------------------------------

Quote == "\""

\* the response body of tests::test_fetch_alerts_string
TestBody ==
    << "A","N","N","A","A","N","N","A","N","N","N","P","A","N",
       "A","N","A","N","N","N","N","A","A","N","N","N","N" >>

BodyKinds == {"test", "quiet", "mixed"}

\* the character a feed of the given kind reports at position i (1-based)
BodyAt(kind, i) ==
    CASE kind = "test"  -> TestBody[((i - 1) % Len(TestBody)) + 1]
      [] kind = "quiet" -> "N"
      [] OTHER          -> IF i % 3 = 1 THEN "P" ELSE IF i % 3 = 2 THEN "x" ELSE "A"

Body(kind, n) == [i \in 1..n |-> BodyAt(kind, i)]

Quotes(n) == [i \in 1..n |-> Quote]

BodyLens == (NumRegions - MaxLenDelta)..(NumRegions + MaxLenDelta)

\* what the feed can answer: the text, and the quotes around it
Replies ==
    [lead : 0..MaxQuotes, body : {Body(k, n) : k \in BodyKinds, n \in BodyLens},
     trail : 0..MaxQuotes]

\* the String the HTTP client hands to fetch_alerts_string
Raw(reply) == Quotes(reply.lead) \o reply.body \o Quotes(reply.trail)

NoReply == [lead |-> 0, body |-> <<>>, trail |-> 0]

\* str::trim_start_matches('"')
RECURSIVE trim_start(_)
trim_start(s) ==
    IF s # <<>> /\ Head(s) = Quote THEN trim_start(Tail(s)) ELSE s

\* str::trim_end_matches('"')
RECURSIVE trim_end(_)
trim_end(s) ==
    IF s # <<>> /\ s[Len(s)] = Quote THEN trim_end(SubSeq(s, 1, Len(s) - 1)) ELSE s

\* a trim that forgets the closing quote
trim_matches_start_only(s) == trim_start(s)

\* response.trim_matches('"')
trim_matches(s) == trim_end(trim_start(s))

\* ArrayString::<27>::push_str on an empty string: panics past the capacity
push_str(text) ==
    IF Len(text) > CAP THEN [kind |-> "Panic", val |-> <<>>]
    ELSE [kind |-> "Ok", val |-> text]

\* DataRepository::fetch_alerts_string: the HTTP get, the trim, the copy into
\* the ArrayString, the insert into the statuses table
fetch_alerts_string(httpOk, reply, dbOk) ==
    IF ~httpOk THEN [kind |-> "Err", val |-> <<>>]
    ELSE LET text == trim_matches(Raw(reply))
             a_string == push_str(text)
         IN  IF a_string.kind = "Panic" THEN a_string
             ELSE IF ~dbOk THEN [kind |-> "Err", val |-> <<>>]
             ELSE a_string

\* a conversion that takes the lowercase letters for the symbols too
AlertStatusFrom_IgnoreCase(c) ==
    CASE c \in {"A", "a"} -> "A"
      [] c \in {"P", "p"} -> "P"
      [] OTHER            -> "N"

\* impl From<char> for AlertStatus
AlertStatusFrom(c) ==
    CASE c = "A" -> "A"
      [] c = "P" -> "P"
      [] OTHER   -> "N"

\* a list item that marks a partial alert like an active one
to_list_item_partial_as_active(region, index, alert_status) ==
    IF alert_status \in {"A", "P"}
    THEN [index |-> index, name |-> region.id, mark |-> TRUE, style |-> "ALERT_ROW_COLOR"]
    ELSE [index |-> index, name |-> region.id, mark |-> FALSE, style |-> "TEXT_COLOR"]

\* Region::to_list_item: the display line and its style
to_list_item(region, index, alert_status) ==
    CASE alert_status = "A" ->
            [index |-> index, name |-> region.id, mark |-> TRUE, style |-> "ALERT_ROW_COLOR"]
      [] alert_status = "P" ->
            [index |-> index, name |-> region.id, mark |-> FALSE, style |-> "MARKER_COLOR"]
      [] OTHER ->
            [index |-> index, name |-> region.id, mark |-> FALSE, style |-> "TEXT_COLOR"]

\* RegionsList::new: one list item per region, from the status at its index
RegionsListItems(rs, alerts_statuses) ==
    [i \in 1..Len(rs) |-> to_list_item(rs[i], i - 1, alerts_statuses[i])]

\* the rows of "SELECT * FROM regions ORDER BY id": status defaults to none
FetchedRegions == [i \in 1..NumRegions |-> [id |-> i, a_id |-> i + 2, status |-> "N"]]

Statuses(rs) == [i \in 1..Len(rs) |-> rs[i].status]

\* ------------------------------------------------------------------------
\* State
\* ------------------------------------------------------------------------

VARIABLES
    pc,              \* where App::run stands
    result,          \* what App::run returned: "none" while it runs
    action_rx,       \* the unbounded channel of Actions
    action,          \* the Action taken by try_recv, "null" between Actions
    should_quit,
    should_suspend,
    periodic,        \* the spawned task that sends Fetch
    lock,            \* the RwLock around Ukraine
    regions,         \* Ukraine.regions
    alerts,          \* the status string Ukraine holds (AlertsByRegion)
    items,           \* Ukraine.list.items
    list_state,      \* Ukraine.list.state: selected is <<>> for None, <<i>> for Some(i)
    reply,           \* the feed's answer to the fetch under way
    alerts_as,       \* the local alerts_as of the Fetch arm
    merged,          \* regions the merge under way has written
    snapPre,         \* statuses when the write lock was last taken
    lastRead,        \* statuses a Component last read
    last_selected,   \* Ukraine.list.last_selected: <<>> for None, <<i>> for Some(i)
    init_regions,    \* what fetch_regions returned to App::init
    input,           \* the argument of the store operation under study
    decoded,         \* what the operation under study returned
    run,             \* the store operations applied last: which, how often, from where
    queued,          \* Actions in the channel when the drain under way began, not yet taken
    locations        \* AlertsInUaGeoClient.locations, <<>> while no client is built

store == <<regions, alerts, items, list_state, last_selected>>

vars == <<pc, result, action_rx, action, should_quit, should_suspend, periodic,
          lock, regions, alerts, items, list_state, reply, alerts_as, merged,
          snapPre, lastRead, last_selected, init_regions, input, decoded, run,
          queued, locations>>

ctl == <<should_quit, should_suspend>>
fetchLocals == <<reply, alerts_as, merged>>
history == <<snapPre, lastRead>>
study == <<init_regions, input, decoded, run, locations>>

\* no store operation applied yet
NoRun == [op |-> "none", len |-> 0, from |-> <<>>]

\* App::new: Ukraine::new_arc() is the default store, both flags false
Init ==
    /\ pc = "init"
    /\ result = "none"
    /\ action_rx = <<>>
    /\ action = "null"
    /\ should_quit = FALSE
    /\ should_suspend = FALSE
    /\ periodic = "unspawned"
    /\ lock = "free"
    /\ regions = <<>>
    /\ alerts = <<>>
    /\ items = <<>>
    /\ list_state = [selected |-> <<>>, offset |-> 0]
    /\ reply = NoReply
    /\ alerts_as = <<>>
    /\ merged = 0
    /\ snapPre = <<>>
    /\ lastRead = <<>>
    /\ last_selected = <<>>
    /\ init_regions = <<>>
    /\ locations = <<>>
    /\ input = <<>>
    /\ decoded = <<>>
    /\ run = NoRun
    /\ queued = 0

\* ------------------------------------------------------------------------
\* Startup: App::run up to the loop
\* ------------------------------------------------------------------------

\* App::init: data_repository.fetch_regions().await? (the error leaves run)
InitFetchRegions ==
    /\ pc = "init"
    /\ \E ok \in BOOLEAN :
          IF ok THEN /\ pc' = "init_lock"
                     /\ result' = result
                ELSE /\ pc' = "done"
                     /\ result' = "err_init"
    /\ UNCHANGED <<queued, study,
                   action_rx, action, ctl, periodic, lock, store, fetchLocals, history>>

\* App::init: self.ukraine.write().unwrap()
InitWriteLock ==
    /\ pc = "init_lock"
    /\ lock = "free"
    /\ lock' = "write"
    /\ pc' = "init_set"
    /\ UNCHANGED <<queued, study,
                   result, action_rx, action, ctl, periodic, store, fetchLocals, history>>

\* Ukraine::set_regions: the store takes the fetched regions
set_regions(rs) == rs

\* an init that leaves the last fetched region out of the store
InitSetRegions_DropsLast ==
    /\ pc = "init_set"
    /\ regions' = SubSeq(FetchedRegions, 1, Len(FetchedRegions) - 1)
    /\ lock' = "free"
    /\ snapPre' = Statuses(regions')
    /\ pc' = "spawn"
    /\ UNCHANGED <<queued, study, result, action_rx, action, ctl, periodic, alerts, items,
                   list_state, last_selected,
                   fetchLocals, lastRead>>

\* App::init: ukraine.set_regions(regions); the guard drops at the end of init
InitSetRegions ==
    /\ pc = "init_set"
    /\ regions' = set_regions(FetchedRegions)
    /\ lock' = "free"
    /\ snapPre' = Statuses(regions')
    /\ pc' = "spawn"
    /\ UNCHANGED <<queued, study, result, action_rx, action, ctl, periodic, alerts, items,
                   list_state, last_selected,
                   fetchLocals, lastRead>>

\* tokio::spawn of the task that sleeps two seconds and sends Fetch
SpawnPeriodic ==
    /\ pc = "spawn"
    /\ periodic' = "sleeping"
    /\ pc' = "wait_event"
    /\ UNCHANGED <<queued, study,
                   result, action_rx, action, ctl, lock, store, fetchLocals, history>>

\* the spawned task: one send after the sleep, then it ends; the send fails
\* once run has returned and dropped the receiver
PeriodicSendFetch ==
    /\ periodic = "sleeping"
    /\ periodic' = "done"
    /\ action_rx' = IF result = "none" THEN Append(action_rx, "Fetch") ELSE action_rx
    /\ UNCHANGED <<queued, study, pc, result, action, ctl, lock, store, fetchLocals, history>>

\* ------------------------------------------------------------------------
\* The loop: wait for an event, drain the channel, check the flags
\* ------------------------------------------------------------------------

Events ==
    {"None", "Quit", "Tick", "Render", "Resize", "KeyEsc", "KeyCtrlC", "KeyDown",
     "KeyUp", "KeyU", "KeyL", "KeyR", "KeyZ", "KeyOther"}

\* the match on the event: the Actions it sends
EventActions(e) ==
    CASE e = "Quit"     -> <<"Quit">>
      [] e = "Tick"     -> <<"Tick">>
      [] e = "Render"   -> <<"Render">>
      [] e = "Resize"   -> <<"Resize">>
      [] e = "KeyEsc"   -> <<"Quit">>
      [] e = "KeyCtrlC" -> <<"Quit">>
      [] e = "KeyDown"  -> <<"Select(1)">>
      [] e = "KeyUp"    -> <<"Select(-1)">>
      [] e = "KeyU"     -> <<"Fetch">>
      [] e = "KeyL"     -> <<"Locale">>
      [] e = "KeyR"     -> <<"Refresh">>
      [] e = "KeyZ"     -> <<"Suspend">>
      [] OTHER          -> <<>>

\* tui.next().await and the sends of the match
WaitEvent ==
    /\ pc = "wait_event"
    /\ \E e \in Events : action_rx' = action_rx \o EventActions(e)
    /\ queued' = Len(action_rx')
    /\ pc' = "drain"
    /\ UNCHANGED <<study, result, action, ctl, periodic, lock, store, fetchLocals, history>>

\* action_rx.try_recv() gives the next Action to the arm for it
Recv(a) ==
    /\ pc = "drain"
    /\ action_rx # <<>>
    /\ Head(action_rx) = a
    /\ action' = a
    /\ queued' = IF queued > 0 THEN queued - 1 ELSE 0

\* a Component's update or draw reads the store under the read lock
ComponentsRead ==
    /\ lock = "free"
    /\ lastRead' = Statuses(regions)

ActionTick ==
    /\ Recv("Tick")
    /\ action_rx' = Tail(action_rx)
    /\ pc' = "update"
    /\ UNCHANGED <<study, result, ctl, periodic, lock, store, fetchLocals, history>>

ActionQuit ==
    /\ Recv("Quit")
    /\ action_rx' = Tail(action_rx)
    /\ should_quit' = TRUE
    /\ pc' = "update"
    /\ UNCHANGED <<study, result, should_suspend, periodic, lock, store, fetchLocals, history>>

ActionSuspend ==
    /\ Recv("Suspend")
    /\ action_rx' = Tail(action_rx)
    /\ should_suspend' = TRUE
    /\ pc' = "update"
    /\ UNCHANGED <<study, result, should_quit, periodic, lock, store, fetchLocals, history>>

\* a Resume arm that leaves the flag set
ActionResume_KeepsFlag ==
    /\ Recv("Resume")
    /\ action_rx' = Tail(action_rx)
    /\ should_suspend' = should_suspend
    /\ pc' = "update"
    /\ UNCHANGED <<study, result, should_quit, periodic, lock, store, fetchLocals, history>>

ActionResume ==
    /\ Recv("Resume")
    /\ action_rx' = Tail(action_rx)
    /\ should_suspend' = FALSE
    /\ pc' = "update"
    /\ UNCHANGED <<study, result, should_quit, periodic, lock, store, fetchLocals, history>>

\* config::toggle_locale()?; action_tx.send(Action::Refresh)?
ActionLocale ==
    /\ Recv("Locale")
    /\ action_rx' = Append(Tail(action_rx), "Refresh")
    /\ pc' = "update"
    /\ UNCHANGED <<study, result, ctl, periodic, lock, store, fetchLocals, history>>

\* tui.resize, then tui.draw: every Component draws
ActionResize ==
    /\ Recv("Resize")
    /\ action_rx' = Tail(action_rx)
    /\ ComponentsRead
    /\ pc' = "update"
    /\ UNCHANGED <<study, result, ctl, periodic, lock, store, fetchLocals, snapPre>>

\* tui.draw: every Component draws into its area
ActionRender ==
    /\ Recv("Render")
    /\ action_rx' = Tail(action_rx)
    /\ ComponentsRead
    /\ pc' = "update"
    /\ UNCHANGED <<study, result, ctl, periodic, lock, store, fetchLocals, snapPre>>

\* the arm `_ => {}`: Refresh, Select, Error are only forwarded
ActionOther ==
    /\ \E a \in {"Refresh", "Select(1)", "Select(-1)", "Error"} : Recv(a)
    /\ action_rx' = Tail(action_rx)
    /\ pc' = "update"
    /\ UNCHANGED <<study, result, ctl, periodic, lock, store, fetchLocals, history>>

\* Action::Fetch: self.data_repository.fetch_alerts_string().await starts
ActionFetch ==
    /\ Recv("Fetch")
    /\ action_rx' = Tail(action_rx)
    /\ pc' = "fetch_await"
    /\ UNCHANGED <<study, result, ctl, periodic, lock, store, fetchLocals, history>>

\* ------------------------------------------------------------------------
\* The Fetch arm after the await
\* ------------------------------------------------------------------------

HttpOutcomes == BOOLEAN
DbOutcomes == BOOLEAN

\* a failed fetch that blanks the map: every status is cleared
FetchAlertsErr_ClearsStatus ==
    /\ pc = "fetch_await"
    /\ regions' = [i \in 1..Len(regions) |-> [regions[i] EXCEPT !.status = "N"]]
    /\ reply' = NoReply
    /\ result' = "err_fetch"
    /\ pc' = "done"
    /\ UNCHANGED <<queued, study, action_rx, action, ctl, periodic, lock, alerts, items,
                   list_state, last_selected,
                   alerts_as, merged, history>>

\* fetch_alerts_string(...).await? returns Err: the `?` returns it from run
FetchAlertsErr ==
    /\ pc = "fetch_await"
    /\ \E h \in HttpOutcomes, r \in Replies, d \in DbOutcomes :
          /\ fetch_alerts_string(h, r, d).kind = "Err"
          /\ reply' = IF h THEN r ELSE NoReply
    /\ result' = "err_fetch"
    /\ pc' = "done"
    /\ UNCHANGED <<queued, study,
                   action_rx, action, ctl, periodic, lock, store, alerts_as, merged,
                   history>>

\* fetch_alerts_string panics in push_str: the text is longer than the capacity
FetchAlertsPanic ==
    /\ pc = "fetch_await"
    /\ \E r \in Replies :
          /\ fetch_alerts_string(TRUE, r, TRUE).kind = "Panic"
          /\ reply' = r
    /\ result' = "panic"
    /\ pc' = "done"
    /\ UNCHANGED <<queued, study,
                   action_rx, action, ctl, periodic, lock, store, alerts_as, merged,
                   history>>

\* fetch_alerts_string returns Ok(a_string): alerts_as is bound
FetchAlertsOk ==
    /\ pc = "fetch_await"
    /\ \E r \in Replies :
          LET got == fetch_alerts_string(TRUE, r, TRUE)
          IN  /\ got.kind = "Ok"
              /\ reply' = r
              /\ alerts_as' = got.val
    /\ pc' = "fetch_lock"
    /\ UNCHANGED <<queued, study,
                   result, action_rx, action, ctl, periodic, lock, store, merged, history>>

\* a Fetch arm that writes without taking the write lock
FetchWriteLock_NotTaken ==
    /\ pc = "fetch_lock"
    /\ snapPre' = Statuses(regions)
    /\ merged' = 0
    /\ pc' = "fetch_set"
    /\ UNCHANGED <<queued, study, result, action_rx, action, ctl, periodic, lock, store, reply,
                   alerts_as, lastRead>>

\* let mut ukraine = self.ukraine.write().unwrap()
FetchWriteLock ==
    /\ pc = "fetch_lock"
    /\ lock = "free"
    /\ lock' = "write"
    /\ snapPre' = Statuses(regions)
    /\ merged' = 0
    /\ pc' = "fetch_set"
    /\ UNCHANGED <<queued, study,
                   result, action_rx, action, ctl, periodic, store, reply, alerts_as,
                   lastRead>>

\* AlertsByRegion::set_alerts: the held string is replaced by alerts_as
set_alerts(held, new) == new

\* ukraine.set_alerts(alerts_as): the store takes the string
SetAlerts ==
    /\ pc = "fetch_set"
    /\ alerts' = set_alerts(alerts, alerts_as)
    /\ pc' = "fetch_merge"
    /\ UNCHANGED <<queued, study,
                   result, action_rx, action, ctl, periodic, lock, regions, items,
                   list_state, last_selected, fetchLocals, history>>

\* the merge has written every region
MergeComplete == merged = Len(regions)

\* apply_status for one ordinal: regions[i].status = status[i]
apply_status(rs, i, status) == [rs EXCEPT ![i].status = AlertStatusFrom(status[i])]

\* one region of the merge; indexing past the end of the string panics
MergeRegion ==
    /\ pc = "fetch_merge"
    /\ ~MergeComplete
    /\ LET i == merged + 1
       IN  IF i > Len(alerts)
           THEN /\ result' = "panic"
                /\ pc' = "done"
                /\ UNCHANGED <<queued, study, regions, merged>>
           ELSE /\ regions' = apply_status(regions, i, alerts)
                /\ merged' = i
                /\ UNCHANGED <<queued, study, result, pc>>
    /\ UNCHANGED <<queued, study, action_rx, action, ctl, periodic, lock, alerts, items,
                   list_state, last_selected,
                   reply, alerts_as, history>>

\* the derived list items are recomputed from the string
RecomputeItems ==
    /\ pc = "fetch_merge"
    /\ MergeComplete
    /\ items' = RegionsListItems(regions, alerts)
    /\ pc' = "fetch_refresh"
    /\ UNCHANGED <<queued, study,
                   result, action_rx, action, ctl, periodic, lock, regions, alerts,
                   list_state, last_selected, fetchLocals, history>>

\* a Fetch arm that sends Refresh twice
FetchSendRefresh_Twice ==
    /\ pc = "fetch_refresh"
    /\ action_rx' = action_rx \o <<"Refresh", "Refresh">>
    /\ lock' = "free"
    /\ reply' = NoReply
    /\ alerts_as' = <<>>
    /\ merged' = 0
    /\ pc' = "update"
    /\ UNCHANGED <<queued, study, result, action, ctl, periodic, store, history>>

\* a Fetch arm whose guard outlives the arm
FetchSendRefresh_KeepsGuard ==
    /\ pc = "fetch_refresh"
    /\ action_rx' = Append(action_rx, "Refresh")
    /\ reply' = NoReply
    /\ alerts_as' = <<>>
    /\ merged' = 0
    /\ pc' = "update"
    /\ UNCHANGED <<queued, study, result, action, ctl, periodic, lock, store, history>>

\* action_tx.send(Action::Refresh)?; the arm ends and drops the guard
FetchSendRefresh ==
    /\ pc = "fetch_refresh"
    /\ action_rx' = Append(action_rx, "Refresh")
    /\ lock' = "free"
    /\ reply' = NoReply
    /\ alerts_as' = <<>>
    /\ merged' = 0
    /\ pc' = "update"
    /\ UNCHANGED <<queued, study, result, action, ctl, periodic, store, history>>

\* ------------------------------------------------------------------------
\* After the arm: the Components, then the flags
\* ------------------------------------------------------------------------

\* a list Component that moves the selection in the store when it gets Select
UpdateComponents_SelectWrites ==
    /\ pc = "update"
    /\ ComponentsRead
    /\ list_state' = IF action \in {"Select(1)", "Select(-1)"}
                     THEN [list_state EXCEPT !.selected = <<0>>]
                     ELSE list_state
    /\ action' = "null"
    /\ pc' = "drain"
    /\ UNCHANGED <<queued, study,
                   result, action_rx, ctl, periodic, lock, regions, alerts, items,
                   last_selected, fetchLocals, snapPre>>

\* for component in components: component.update(action.clone())?
UpdateComponents ==
    /\ pc = "update"
    /\ ComponentsRead
    /\ action' = "null"
    /\ pc' = "drain"
    /\ UNCHANGED <<queued, study,
                   result, action_rx, ctl, periodic, lock, store, fetchLocals, snapPre>>

\* try_recv() finds the channel empty: the while loop ends
DrainEmpty ==
    /\ pc = "drain"
    /\ action_rx = <<>>
    /\ pc' = "check"
    /\ UNCHANGED <<queued, study,
                   result, action_rx, action, ctl, periodic, lock, store, fetchLocals,
                   history>>

\* if self.should_suspend: tui.suspend, send Resume, a new Tui is entered
CheckSuspend ==
    /\ pc = "check"
    /\ should_suspend
    /\ action_rx' = Append(action_rx, "Resume")
    /\ pc' = "wait_event"
    /\ UNCHANGED <<queued, study,
                   result, action, ctl, periodic, lock, store, fetchLocals, history>>

\* a quit branch tested before the suspend branch
CheckQuit_BeforeSuspend ==
    /\ pc = "check"
    /\ should_quit
    /\ result' = "ok"
    /\ pc' = "done"
    /\ UNCHANGED <<queued, study,
                   action_rx, action, ctl, periodic, lock, store, fetchLocals, history>>

\* else if self.should_quit: tui.stop, break, tui.exit, Ok(())
CheckQuit ==
    /\ pc = "check"
    /\ ~should_suspend
    /\ should_quit
    /\ result' = "ok"
    /\ pc' = "done"
    /\ UNCHANGED <<queued, study,
                   action_rx, action, ctl, periodic, lock, store, fetchLocals, history>>

\* neither flag: the loop goes round
CheckContinue ==
    /\ pc = "check"
    /\ ~should_suspend
    /\ ~should_quit
    /\ pc' = "wait_event"
    /\ UNCHANGED <<queued, study,
                   result, action_rx, action, ctl, periodic, lock, store, fetchLocals,
                   history>>

\* the steps of the loop of App::run: the arms, the drain's end, the flags
LoopArms ==
    \/ ActionTick \/ ActionQuit \/ ActionSuspend \/ ActionResume \/ ActionLocale
    \/ ActionResize \/ ActionRender \/ ActionOther \/ ActionFetch
    \/ FetchWriteLock \/ SetAlerts \/ MergeRegion \/ RecomputeItems \/ FetchSendRefresh
    \/ DrainEmpty \/ CheckSuspend \/ CheckQuit \/ CheckContinue

ControllerLoop == WaitEvent \/ LoopArms \/ UpdateComponents

Controller ==
    \/ InitFetchRegions \/ InitWriteLock \/ InitSetRegions \/ SpawnPeriodic
    \/ ControllerLoop

\* the DataPort answers the fetch under way
DataPort == FetchAlertsErr \/ FetchAlertsPanic \/ FetchAlertsOk

Next == Controller \/ DataPort \/ PeriodicSendFetch

Spec == Init /\ [][Next]_vars

\* what the code's scheduling guarantees: run is polled while it can step, the
\* client's timeout ends every fetch, the spawned task's sleep ends
FairSpec ==
    /\ Spec
    /\ WF_vars(Controller)
    /\ WF_vars(DataPort)
    /\ WF_vars(PeriodicSendFetch)

\* ------------------------------------------------------------------------
\* One character of the status string: its status and its list item
\* ------------------------------------------------------------------------

\* App::new has run, App::run has not: the controller's state in the studies of
\* the store's own operations
AppIdle ==
    /\ pc = "init"
    /\ result = "none"
    /\ action_rx = <<>>
    /\ action = "null"
    /\ should_quit = FALSE
    /\ should_suspend = FALSE
    /\ periodic = "unspawned"
    /\ lock = "free"
    /\ reply = NoReply
    /\ alerts_as = <<>>
    /\ merged = 0
    /\ snapPre = <<>>
    /\ lastRead = <<>>
    /\ queued = 0

app == <<pc, result, action_rx, action, ctl, periodic, lock, fetchLocals, history, queued>>

\* the characters tried: the three symbols, their lowercase twins, two others
Chars == {"A", "P", "N", "a", "p", "n", "x"}

\* a character and the ordinal of the region it is decoded for
CodecInit ==
    /\ AppIdle
    /\ regions = FetchedRegions
    /\ alerts = <<>>
    /\ items = <<>>
    /\ list_state = [selected |-> <<>>, offset |-> 0]
    /\ last_selected = <<>>
    /\ init_regions = <<>>
    /\ locations = <<>>
    /\ input \in [c : Chars, ordinal : 1..NumRegions]
    /\ decoded = [status |-> <<>>, item |-> <<>>]
    /\ run = NoRun

\* AlertStatus::from(c)
FromChar ==
    /\ decoded.status = <<>>
    /\ decoded' = [decoded EXCEPT !.status = <<AlertStatusFrom(input.c)>>]
    /\ UNCHANGED <<app, store, init_regions, input, run, locations>>

\* region.to_list_item(index, c), as RegionsList::new calls it
ToListItem ==
    /\ decoded.item = <<>>
    /\ decoded' = [decoded EXCEPT !.item =
                      <<to_list_item(regions[input.ordinal], input.ordinal - 1, input.c)>>]
    /\ UNCHANGED <<app, store, init_regions, input, run, locations>>

CodecNext == FromChar \/ ToListItem

CodecSpec == CodecInit /\ [][CodecNext]_vars

\* ------------------------------------------------------------------------
\* Ukraine::set_alerts: the merge of the feed's alert records into the store
\* ------------------------------------------------------------------------

MaxAlerts == 3

\* Alert.location_oblast_uid, an Option<i32>: none, the id of the first
\* region, the a_id of the first region (the id of the third), the a_id of the
\* last region (no region's id)
Uids == {<<>>, <<1>>, <<3>>, <<NumRegions + 2>>}

Alerts == [location_oblast_uid : Uids]

\* Vec<Alert>
AlertLists == UNION {[1..n -> Alerts] : n \in 0..MaxAlerts}

\* alerts.iter().find(|alert| alert.location_oblast_uid.unwrap() == item.id):
\* the closure runs on each record up to the first match, and panics on a
\* record without a region-id
RECURSIVE find(_, _, _)
find(alerts_vec, item, k) ==
    IF k > Len(alerts_vec) THEN "None"
    ELSE IF alerts_vec[k].location_oblast_uid = <<>> THEN "Panic"
    ELSE IF alerts_vec[k].location_oblast_uid[1] = item.id THEN "Some"
    ELSE find(alerts_vec, item, k + 1)

\* a status that fades through Partial when its alert is gone
set_status_fading(item, found) ==
    IF found = "Some" THEN [item EXCEPT !.status = "A"]
    ELSE IF item.status = "A" THEN [item EXCEPT !.status = "P"]
    ELSE [item EXCEPT !.status = "N"]

\* the body of the for_each: Some("A") for a match, None otherwise
set_status(item, found) ==
    IF found = "Some" THEN [item EXCEPT !.status = "A"]
    ELSE [item EXCEPT !.status = "N"]

\* Ukraine::set_alerts from region i on: the regions are written in place, in
\* order, so a panic leaves the ones before it written
RECURSIVE Ukraine_set_alerts(_, _, _)
Ukraine_set_alerts(rs, alerts_vec, i) ==
    IF i > Len(rs) THEN [kind |-> "Ok", regions |-> rs]
    ELSE LET found == find(alerts_vec, rs[i], 1)
         IN  IF found = "Panic" THEN [kind |-> "Panic", regions |-> rs]
             ELSE Ukraine_set_alerts([rs EXCEPT ![i] = set_status(rs[i], found)],
                                     alerts_vec, i + 1)

\* a hydrated store, untouched or with the statuses of the test's string
AlertsInit ==
    /\ AppIdle
    /\ \E s \in {<<>>, TestBody} :
          regions = [i \in 1..NumRegions |->
                        [FetchedRegions[i] EXCEPT
                            !.status = IF s = <<>> THEN "N" ELSE AlertStatusFrom(s[i])]]
    /\ alerts = <<>>
    /\ items = <<>>
    /\ list_state = [selected |-> <<>>, offset |-> 0]
    /\ last_selected = <<>>
    /\ init_regions = <<>>
    /\ locations = <<>>
    /\ input = <<>>
    /\ decoded = <<>>
    /\ run = NoRun

\* one call of set_alerts; run counts the calls in a row with the same list
\* and keeps the statuses before the first of them
ApplyAlerts ==
    /\ decoded # <<"Panic">>
    /\ \E alerts_vec \in AlertLists :
          LET r == Ukraine_set_alerts(regions, alerts_vec, 1)
              again == run.op = "set_alerts" /\ input = alerts_vec
          IN  /\ regions' = r.regions
              /\ decoded' = <<r.kind>>
              /\ input' = alerts_vec
              /\ run' = [op |-> "set_alerts",
                         len |-> IF again THEN 2 ELSE 1,
                         from |-> IF again THEN run.from ELSE Statuses(regions)]
    /\ UNCHANGED <<app, alerts, items, list_state, last_selected, init_regions,
                 locations>>

AlertsNext == ApplyAlerts

AlertsSpec == AlertsInit /\ [][AlertsNext]_vars

\* ------------------------------------------------------------------------
\* Hydration from a regions table of any size
\* ------------------------------------------------------------------------

MaxRowDelta == 1

\* how many rows the regions table may hold
RowCounts == (NumRegions - MaxRowDelta)..(NumRegions + MaxRowDelta)

\* the rows of "SELECT * FROM regions ORDER BY id" for a table of n rows
Rows(n) == [i \in 1..n |-> [id |-> i, a_id |-> i + 2, status |-> "N"]]

\* ArrayVec::<Region, 27>::from_iter: takes the rows it is given, and panics
\* when they are more than its capacity
from_iter(rows) ==
    IF Len(rows) > CAP THEN [kind |-> "Panic", val |-> <<>>]
    ELSE [kind |-> "Ok", val |-> rows]

\* DataRepository::fetch_regions
fetch_regions(dbOk, rows) ==
    IF ~dbOk THEN [kind |-> "Err", val |-> <<>>]
    ELSE from_iter(rows)

\* App::init: let regions = data_repository.fetch_regions().await?
HydrateFetchRegions ==
    /\ pc = "init"
    /\ \E dbOk \in BOOLEAN, n \in RowCounts :
          LET r == fetch_regions(dbOk, Rows(n))
          IN  /\ init_regions' = r.val
              /\ pc' = IF r.kind = "Ok" THEN "init_lock" ELSE "done"
              /\ result' = CASE r.kind = "Ok"    -> result
                              [] r.kind = "Err"   -> "err_init"
                              [] r.kind = "Panic" -> "panic"
    /\ UNCHANGED <<queued, input, decoded, run, action_rx, action, ctl, periodic, lock, store,
                   fetchLocals, history, locations>>

\* App::init: ukraine.set_regions(regions)
HydrateSetRegions ==
    /\ pc = "init_set"
    /\ regions' = set_regions(init_regions)
    /\ lock' = "free"
    /\ snapPre' = Statuses(regions')
    /\ pc' = "spawn"
    /\ UNCHANGED <<queued, study, result, action_rx, action, ctl, periodic, alerts, items,
                   list_state, last_selected, fetchLocals, lastRead>>

HydrateNext ==
    \/ HydrateFetchRegions \/ InitWriteLock \/ HydrateSetRegions \/ SpawnPeriodic
    \/ ControllerLoop \/ DataPort \/ PeriodicSendFetch

HydrateSpec == Init /\ [][HydrateNext]_vars

\* ------------------------------------------------------------------------
\* RegionsList: the selection and its navigation
\* ------------------------------------------------------------------------

MaxOffset == 1
MaxStray == 2

\* a usize below zero stands for the value 2^64 higher: what a subtraction
\* below zero wraps to when the build does not check overflow
usize_ge(a, b) == IF (a < 0) = (b < 0) THEN a >= b ELSE a < 0

\* Option::unwrap_or
unwrap_or(opt, default) == IF opt = <<>> THEN default ELSE opt[1]

\* ratatui's ListState::select: selecting nothing resets the offset
select(state, index) ==
    [selected |-> index, offset |-> IF index = <<>> THEN 0 ELSE state.offset]

\* the RegionsList inside Ukraine
list == [items |-> items, state |-> list_state, last_selected |-> last_selected]

Done(l) == [kind |-> "Ok", list |-> l]
Panicked(l) == [kind |-> "Panic", list |-> l]

\* self.items.len() - 1 panics on an empty list when the build checks overflow
Underflow(l, overflow_checks) == Len(l.items) = 0 /\ overflow_checks

\* a next that wraps one index too late
next_wraps_late(l, overflow_checks) ==
    IF l.state.selected # <<>>
    THEN LET i == l.state.selected[1]
             to == IF usize_ge(i, Len(l.items)) THEN 0 ELSE i + 1
         IN  Done([l EXCEPT !.state = select(l.state, <<to>>)])
    ELSE Done([l EXCEPT !.state = select(l.state, <<unwrap_or(l.last_selected, 0)>>)])

\* RegionsList::next
next(l, overflow_checks) ==
    IF l.state.selected # <<>>
    THEN IF Underflow(l, overflow_checks) THEN Panicked(l)
         ELSE LET i == l.state.selected[1]
                  to == IF usize_ge(i, Len(l.items) - 1) THEN 0 ELSE i + 1
              IN  Done([l EXCEPT !.state = select(l.state, <<to>>)])
    ELSE Done([l EXCEPT !.state = select(l.state, <<unwrap_or(l.last_selected, 0)>>)])

\* a previous that stops at the first item
previous_stops_at_top(l, overflow_checks) ==
    IF l.state.selected # <<>>
    THEN LET i == l.state.selected[1]
             to == IF i = 0 THEN 0 ELSE i - 1
         IN  Done([l EXCEPT !.state = select(l.state, <<to>>)])
    ELSE Done([l EXCEPT !.state = select(l.state, <<unwrap_or(l.last_selected, 0)>>)])

\* RegionsList::previous
previous(l, overflow_checks) ==
    IF l.state.selected # <<>>
    THEN LET i == l.state.selected[1]
             to == IF i = 0 THEN Len(l.items) - 1 ELSE i - 1
         IN  IF i = 0 /\ Underflow(l, overflow_checks) THEN Panicked(l)
             ELSE Done([l EXCEPT !.state = select(l.state, <<to>>)])
    ELSE Done([l EXCEPT !.state = select(l.state, <<unwrap_or(l.last_selected, 0)>>)])

\* an unselect that does not put the offset back
unselect_drops_offset(l, overflow_checks) ==
    Done([l EXCEPT !.last_selected = l.state.selected,
                   !.state = select(l.state, <<>>)])

\* RegionsList::unselect
unselect(l, overflow_checks) ==
    LET offset == l.state.offset
        unselected == select(l.state, <<>>)
    IN  Done([l EXCEPT !.last_selected = l.state.selected,
                       !.state = [selected |-> unselected.selected, offset |-> offset]])

\* RegionsList::go_top
go_top(l, overflow_checks) == Done([l EXCEPT !.state = select(l.state, <<0>>)])

\* RegionsList::go_bottom
go_bottom(l, overflow_checks) ==
    IF Underflow(l, overflow_checks) THEN Panicked(l)
    ELSE Done([l EXCEPT !.state = select(l.state, <<Len(l.items) - 1>>)])

\* the status string of the list items once they are built
ListStatuses == TestBody

\* the build of the binary, and the store before hydration, hydrated, and with
\* its list items built
NavInit ==
    /\ AppIdle
    /\ input \in [overflow_checks : BOOLEAN]
    /\ \E hydrated, built \in BOOLEAN :
          /\ built => hydrated
          /\ regions = IF hydrated THEN FetchedRegions ELSE <<>>
          /\ items = IF built THEN RegionsListItems(FetchedRegions, ListStatuses) ELSE <<>>
    /\ alerts = <<>>
    /\ list_state = [selected |-> <<>>, offset |-> 0]
    /\ last_selected = <<>>
    /\ init_regions = <<>>
    /\ locations = <<>>
    /\ decoded = <<>>
    /\ run = [op |-> "none", len |-> 0, from |-> <<>>, prior |-> "none"]

\* how many calls in a row run counts before it starts again
RunCap(op) == IF op = "next" THEN NumRegions ELSE 2

\* run after one more call of op: the calls of op in a row, the selection they
\* started from, and the call before them if it was a single one that found
\* no selection
Ran(op) ==
    IF run.op = op /\ run.len < RunCap(op)
    THEN [run EXCEPT !.len = @ + 1]
    ELSE [op |-> op, len |-> 1, from |-> list_state.selected,
          prior |-> IF run.len = 1 /\ run.from = <<>> THEN run.op ELSE "none"]

\* the indexes followed on a list without items
Followed(l) ==
    IF l.state.selected = <<>> THEN TRUE
    ELSE l.state.selected[1] \in (0 - MaxStray)..(NumRegions - 1 + MaxStray)

\* one call of a navigation operation, r its outcome
Navigate(op, r) ==
    /\ result = "none"
    /\ Followed(r.list)
    /\ list_state' = r.list.state
    /\ last_selected' = r.list.last_selected
    /\ result' = IF r.kind = "Panic" THEN "panic" ELSE result
    /\ run' = Ran(op)
    /\ UNCHANGED <<pc, action_rx, action, ctl, periodic, lock, fetchLocals, history,
                   queued, regions, alerts, items, init_regions, input, decoded,
                   locations>>

SelectNext == Navigate("next", next(list, input.overflow_checks))
SelectPrevious == Navigate("previous", previous(list, input.overflow_checks))
Unselect == Navigate("unselect", unselect(list, input.overflow_checks))
GoTop == Navigate("go_top", go_top(list, input.overflow_checks))
GoBottom == Navigate("go_bottom", go_bottom(list, input.overflow_checks))

\* rendering the list moves the offset to keep the selection in view
Scroll ==
    /\ result = "none"
    /\ items # <<>>
    /\ \E o \in 0..MaxOffset :
          /\ o # list_state.offset
          /\ list_state' = [list_state EXCEPT !.offset = o]
    /\ run' = Ran("scroll")
    /\ UNCHANGED <<app, regions, alerts, items, last_selected, init_regions, input, decoded,
                 locations>>

NavNext == SelectNext \/ SelectPrevious \/ Unselect \/ GoTop \/ GoBottom \/ Scroll

NavSpec == NavInit /\ [][NavNext]_vars

\* ------------------------------------------------------------------------
\* The Components on the bus: the Actions they derive, the calls that fail
\* ------------------------------------------------------------------------

MaxQueue == 3
MaxDerive == 1

\* the Actions a Component returns from handle_events or update
Derivable == {"Quit", "Suspend", "Refresh"}

\* what the Components return for one event or one Action, in component order
Derived == UNION {[1..n -> Derivable] : n \in 0..MaxDerive}

\* tui.next().await, the sends of the match, then handle_events of every
\* Component and the send of what each returns
WaitEventDerive ==
    /\ pc = "wait_event"
    /\ \E e \in Events, ds \in Derived :
          /\ Len(action_rx) + Len(EventActions(e)) + Len(ds) <= MaxQueue
          /\ action_rx' = action_rx \o EventActions(e) \o ds
    /\ queued' = Len(action_rx')
    /\ pc' = "drain"
    /\ UNCHANGED <<study, result, action, ctl, periodic, lock, store, fetchLocals, history>>

\* component.handle_events(..)? returns an error: run returns it
HandleEventsFails ==
    /\ pc = "wait_event"
    /\ result' = "err_event"
    /\ pc' = "done"
    /\ UNCHANGED <<queued, study, action_rx, action, ctl, periodic, lock, store,
                   fetchLocals, history>>

\* config::toggle_locale()?, tui.resize(..)? or tui.draw(..)? returns an error
\* in the arm: run returns it, the Action in hand is dropped
ArmFails ==
    /\ \E a \in {"Locale", "Resize", "Render"} : Recv(a)
    /\ action_rx' = Tail(action_rx)
    /\ result' = "err_arm"
    /\ pc' = "done"
    /\ UNCHANGED <<study, ctl, periodic, lock, store, fetchLocals, history>>

\* a Component's draw returns an error inside tui.draw: the closure sends an
\* Error Action and the arm goes on
DrawSendsError ==
    /\ \E a \in {"Resize", "Render"} : Recv(a)
    /\ Len(action_rx) <= MaxQueue
    /\ action_rx' = Append(Tail(action_rx), "Error")
    /\ ComponentsRead
    /\ pc' = "update"
    /\ UNCHANGED <<study, result, ctl, periodic, lock, store, fetchLocals, snapPre>>

\* component.update(action.clone())? for every Component, and the send of the
\* Action each returns
UpdateComponentsDerive ==
    /\ pc = "update"
    /\ ComponentsRead
    /\ \E ds \in Derived :
          /\ Len(action_rx) + Len(ds) <= MaxQueue
          /\ action_rx' = action_rx \o ds
    /\ action' = "null"
    /\ pc' = "drain"
    /\ UNCHANGED <<queued, study, result, ctl, periodic, lock, store, fetchLocals, snapPre>>

\* component.update(..)? returns an error: run returns it
UpdateFails ==
    /\ pc = "update"
    /\ result' = "err_update"
    /\ pc' = "done"
    /\ UNCHANGED <<queued, study, action_rx, action, ctl, periodic, lock, store,
                   fetchLocals, history>>

\* the feed's answers followed in this study: the test's response
BusReplies == {[lead |-> 1, body |-> TestBody, trail |-> 1]}

\* fetch_alerts_string(...).await? returns Err
BusFetchErr ==
    /\ pc = "fetch_await"
    /\ \E h \in HttpOutcomes, r \in BusReplies, d \in DbOutcomes :
          /\ fetch_alerts_string(h, r, d).kind = "Err"
          /\ reply' = IF h THEN r ELSE NoReply
    /\ result' = "err_fetch"
    /\ pc' = "done"
    /\ UNCHANGED <<queued, study, action_rx, action, ctl, periodic, lock, store, alerts_as,
                   merged, history>>

\* fetch_alerts_string returns Ok(a_string)
BusFetchOk ==
    /\ pc = "fetch_await"
    /\ \E r \in BusReplies :
          LET got == fetch_alerts_string(TRUE, r, TRUE)
          IN  /\ got.kind = "Ok"
              /\ reply' = r
              /\ alerts_as' = got.val
    /\ pc' = "fetch_lock"
    /\ UNCHANGED <<queued, study, result, action_rx, action, ctl, periodic, lock, store,
                   merged, history>>

BusDataPort == BusFetchErr \/ BusFetchOk

BusController ==
    \/ InitFetchRegions \/ InitWriteLock \/ InitSetRegions \/ SpawnPeriodic
    \/ WaitEventDerive \/ HandleEventsFails
    \/ LoopArms \/ ArmFails \/ DrawSendsError
    \/ UpdateComponentsDerive \/ UpdateFails

BusNext == BusController \/ BusDataPort \/ PeriodicSendFetch

BusSpec == Init /\ [][BusNext]_vars

\* the scheduling of FairSpec, for the loop with its Components
BusFairSpec ==
    /\ BusSpec
    /\ WF_vars(BusController)
    /\ WF_vars(BusDataPort)
    /\ WF_vars(PeriodicSendFetch)

\* ------------------------------------------------------------------------
\* AlertsInUaGeoClient: the registry of locations and its lookups
\* ------------------------------------------------------------------------

MaxFeatureDelta == 1

\* the features of a collection handed to the constructor: the 27 of the
\* asset, fewer, more
FeatureCounts == (NumRegions - MaxFeatureDelta)..(NumRegions + MaxFeatureDelta)

\* the names of the asset's 27 features, one per location
Names ==
    <<"Crimea", "Vinnytsia", "Volyn", "Dnipro", "Donetsk", "Zhytomyr", "Zakarpattia",
      "Zaporizhzhia", "Frankivsk", "Kyivska", "Kirovohrad", "Luhansk", "Lviv",
      "Mykolaiv", "Odesa", "Poltava", "Rivne", "Sumy", "Ternopil", "Kharkiv",
      "Kherson", "Khmelnytskyi", "Cherkasy", "Chernivtsi", "Chernihiv", "Kyiv",
      "Sevastopol">>

\* Location: the uid of a feature and its name; a feature past the 27 is one
\* the asset does not have
Location(i) ==
    [location_uid |-> i + 2, name |-> IF i <= Len(Names) THEN Names[i] ELSE "extra"]

\* a feature collection of n features
Features(n) == [i \in 1..n |-> Location(i)]

\* deserialize_feature_collection_to_fixed_array: a [Location; 27] of the
\* features, an error for a collection of another size
deserialize_feature_collection_to_fixed_array(features) ==
    IF Len(features) = NumRegions THEN [kind |-> "Ok", val |-> features]
    ELSE [kind |-> "Err", val |-> <<>>]

\* the locations of an array, the domain of a closure over &Location
Locations(self) == {self[i] : i \in 1..Len(self)}

\* self.locations.iter().find(|r| predicate(r)).cloned(): the first location
\* the predicate holds of, <<>> for None
get_location_by(self, predicate) ==
    LET hits == {i \in 1..Len(self) : predicate[self[i]]}
    IN  IF hits = {} THEN <<>>
        ELSE <<self[CHOOSE i \in hits : \A j \in hits : i <= j]>>

\* a lookup that takes the uid for the position in the array
get_location_at_uid(self, location_uid) ==
    IF location_uid \in 1..Len(self) THEN <<self[location_uid]>> ELSE <<>>

get_location_by_uid(self, location_uid) ==
    get_location_by(self, [r \in Locations(self) |-> r.location_uid = location_uid])

get_location_by_name(self, name) ==
    get_location_by(self, [r \in Locations(self) |-> r.name = name])

\* the uids asked for: those of the registry and some on either side
UidQueries == 1..(NumRegions + 4)

\* the names asked for: those of the features and two of no feature
NameQueries == {Names[i] : i \in 1..Len(Names)} \cup {"", "kyiv"}

\* no client built, no lookup made; input.features is the size of the
\* collection the constructor will read
GeoInit ==
    /\ AppIdle
    /\ regions = <<>>
    /\ alerts = <<>>
    /\ items = <<>>
    /\ list_state = [selected |-> <<>>, offset |-> 0]
    /\ last_selected = <<>>
    /\ init_regions = <<>>
    /\ locations = <<>>
    /\ input \in [features : FeatureCounts, uid : {<<>>}, name : {<<>>}]
    /\ decoded = [uid |-> <<>>, name |-> <<>>]
    /\ run = NoRun

\* AlertsInUaGeoClient::default: the unwrap panics on an error
GeoDefault ==
    /\ run.op = "none"
    /\ LET r == deserialize_feature_collection_to_fixed_array(Features(input.features))
       IN  /\ locations' = r.val
           /\ run' = [run EXCEPT !.op = IF r.kind = "Ok" THEN "default" ELSE "panic",
                                 !.len = Len(r.val)]
    /\ UNCHANGED <<app, store, init_regions, input, decoded>>

\* geo_client.get_location_by_uid(uid)
GetLocationByUid ==
    /\ run.op = "default"
    /\ \E uid \in UidQueries :
          /\ input' = [input EXCEPT !.uid = <<uid>>]
          /\ decoded' = [decoded EXCEPT !.uid = <<get_location_by_uid(locations, uid)>>]
    /\ UNCHANGED <<app, store, init_regions, run, locations>>

\* geo_client.get_location_by_name(name)
GetLocationByName ==
    /\ run.op = "default"
    /\ \E name \in NameQueries :
          /\ input' = [input EXCEPT !.name = <<name>>]
          /\ decoded' = [decoded EXCEPT !.name = <<get_location_by_name(locations, name)>>]
    /\ UNCHANGED <<app, store, init_regions, run, locations>>

GeoNext == GeoDefault \/ GetLocationByUid \/ GetLocationByName

GeoSpec == GeoInit /\ [][GeoNext]_vars

\* ------------------------------------------------------------------------
\* Vocabulary of the properties
\* ------------------------------------------------------------------------

Running == result = "none"

\* the controller awaits the DataPort's answer to fetch_alerts_string
FetchOutstanding == pc = "fetch_await"

\* the .await points inside `loop { ... }`
LoopAwaits == {"wait_event", "fetch_await"}

\* the Fetch arm between the await and its end
FetchArm == {"fetch_lock", "fetch_set", "fetch_merge", "fetch_refresh"}

QuitIssued == should_quit \/ \E i \in 1..Len(action_rx) : action_rx[i] = "Quit"

WellFormed(r) ==
    /\ Len(r.body) = NumRegions
    /\ \A i \in 1..Len(r.body) : r.body[i] # Quote

\* the status a character stands for
Decoded(c) == IF c = "A" THEN "A" ELSE IF c = "P" THEN "P" ELSE "N"

\* the statuses after the string s is applied whole to the statuses pre
FullMerge(pre, s) == [i \in 1..Len(pre) |-> IF i <= Len(s) THEN Decoded(s[i]) ELSE pre[i]]

\* ------------------------------------------------------------------------
\* Properties
\* ------------------------------------------------------------------------

\* C1: a failed status fetch never terminates the loop: run() does not return
\* because fetch_alerts_string returned an error.
C1_FetchErrorKeepsRunning == result # "err_fetch"

\* C2: a failed fetch (an error or a panic inside fetch_alerts_string) leaves
\* the regions, the held status string, the list items and the list state as
\* they were before the Fetch Action.
C2_FailedFetchLeavesStore ==
    [][(FetchOutstanding /\ result' \in {"err_fetch", "panic"}) => store' = store]_vars

C2_Witness ==
    /\ result = "err_fetch"
    /\ \E i \in 1..Len(regions) : regions[i].status = "A"
    /\ \E i \in 1..Len(regions) : regions[i].status = "P"

\* C3: inside the loop the controller suspends only at the wait for the next
\* input/timer event; it never waits for the DataPort.
C3_SuspendsOnlyAtEventWait == pc \in LoopAwaits => pc = "wait_event"

\* C4: with a Quit issued and a status fetch outstanding, the loop can go on
\* to its exit without the DataPort's answer.
C4_QuitDoesNotWaitForFetch == (FetchOutstanding /\ QuitIssued) => ENABLED Controller

\* C5: while the controller is Running the spawned task sends Fetch again and
\* again: either run() returns at some time, or Fetch is sent infinitely often.
C5_PeriodicFetchRepeats == <>(~Running) \/ []<><<PeriodicSendFetch>>_vars

C9_WrongLengthRejected ==
    /\ (reply # NoReply /\ Len(reply.body) # NumRegions) => result \in {"err_fetch", "panic"}
    /\ Len(alerts) \in {0, NumRegions}

\* C10: decoding a well-formed response gives its 27 characters in order with
\* the quotes around them removed; the test's response gives A at 0 and 3,
\* N at 1, P at 11.
C10_DecodeReturnsBody ==
    (reply # NoReply /\ WellFormed(reply)) =>
        /\ result # "panic"
        /\ pc \in FetchArm =>
              /\ alerts_as = reply.body
              /\ reply.body = TestBody =>
                    /\ alerts_as[1] = "A" /\ alerts_as[2] = "N"
                    /\ alerts_as[4] = "A" /\ alerts_as[12] = "P"

C10_Witness ==
    /\ pc = "fetch_lock"
    /\ reply.lead = 1
    /\ reply.trail = 1
    /\ reply.body = TestBody
    /\ alerts_as = TestBody

\* the status a list item is drawn for
DrawnAs(item) ==
    CASE item.mark /\ item.style = "ALERT_ROW_COLOR"  -> "A"
      [] ~item.mark /\ item.style = "MARKER_COLOR"    -> "P"
      [] ~item.mark /\ item.style = "TEXT_COLOR"      -> "N"
      [] OTHER                                        -> "unknown"

\* C11: every character decodes, case-sensitively: 'A' is Active, 'P' is
\* Partial, anything else (N, a lowercase letter, an unknown character) is
\* None; the list item of a region is drawn by the same mapping.
C11_DecodeTotalCaseSensitive ==
    /\ decoded.status # <<>> =>
          decoded.status[1] = (IF input.c = "A" THEN "A"
                               ELSE IF input.c = "P" THEN "P" ELSE "N")
    /\ decoded.item # <<>> =>
          DrawnAs(decoded.item[1]) = (IF input.c = "A" THEN "A"
                                      ELSE IF input.c = "P" THEN "P" ELSE "N")
    /\ (decoded.status # <<>> /\ decoded.item # <<>>) =>
          DrawnAs(decoded.item[1]) = decoded.status[1]

C11_Witness ==
    /\ input.c = "a"
    /\ decoded.status = <<"N">>
    /\ decoded.item # <<>>
    /\ DrawnAs(decoded.item[1]) = "N"

\* C12: after set_alerts, a region is Active exactly when some record of the
\* list carries its a_id as region-id and None otherwise, whatever its status
\* was before; and set_alerts completes on every list, records without a
\* region-id included.
C12_ApplyAlertsByAdminId ==
    run.op = "set_alerts" =>
        /\ decoded = <<"Ok">>
        /\ \A i \in 1..Len(regions) :
              regions[i].status =
                  (IF \E k \in 1..Len(input) :
                         input[k].location_oblast_uid = <<regions[i].a_id>>
                   THEN "A" ELSE "N")

\* C13: set_alerts called a second time in a row with the same list leaves
\* every status as the first call left it.
C13_ApplyAlertsIdempotent ==
    [][(run'.op = "set_alerts" /\ run'.len = 2 /\ decoded' = <<"Ok">>) =>
          Statuses(regions') = Statuses(regions)]_vars

C13_Witness ==
    /\ run.op = "set_alerts"
    /\ run.len = 2
    /\ decoded = <<"Ok">>
    /\ \E i \in 1..NumRegions : regions[i].status = "A" /\ run.from[i] = "N"
    /\ \E i \in 1..NumRegions : regions[i].status = "N" /\ run.from[i] = "A"

\* App::init has returned Ok
Initialized == pc \notin {"init", "init_lock", "init_set"} /\ result # "err_init"

ListBuilt == Len(items) = NumRegions

\* C16: on the list of 27 items, next called 27 times in a row from a selected
\* index k ends with k selected again, and next from 26 selects 0.
C16_NextIsCircular ==
    ListBuilt =>
        /\ (run.op = "next" /\ run.len = NumRegions /\ run.from # <<>>) =>
              list_state.selected = run.from
        /\ (run.op = "next" /\ run.len = 1 /\ run.from = <<NumRegions - 1>>) =>
              list_state.selected = <<0>>

C16_Witness ==
    /\ ListBuilt
    /\ run.op = "next"
    /\ run.len = NumRegions
    /\ run.from = <<5>>
    /\ list_state.selected = <<5>>

\* C17: on the list of 27 items, go_top selects 0 and go_bottom selects 26;
\* previous from 0 selects 26, so go_top then previous from no selection
\* selects 26.
C17_TopThenPreviousIsBottom ==
    ListBuilt =>
        /\ run.op = "go_top" => list_state.selected = <<0>>
        /\ run.op = "go_bottom" => list_state.selected = <<NumRegions - 1>>
        /\ (run.op = "previous" /\ run.len = 1 /\ run.from = <<0>>) =>
              list_state.selected = <<NumRegions - 1>>
        /\ (run.op = "previous" /\ run.len = 1 /\ run.prior = "go_top") =>
              list_state.selected = <<NumRegions - 1>>

C17_Witness ==
    /\ ListBuilt
    /\ run.op = "previous"
    /\ run.len = 1
    /\ run.prior = "go_top"
    /\ list_state.selected = <<NumRegions - 1>>

\* C18: a call of unselect leaves nothing selected and the offset as it was
\* before the call, for every list state.
C18_UnselectKeepsOffset ==
    [][(run' # run /\ run'.op = "unselect") =>
          /\ list_state'.selected = <<>>
          /\ list_state'.offset = list_state.offset]_vars

C18_Witness ==
    /\ run.op = "unselect"
    /\ run.len = 1
    /\ run.from # <<>>
    /\ last_selected = run.from
    /\ list_state.selected = <<>>
    /\ list_state.offset > 0

\* C19: whatever navigation operations are called, from the store before or
\* after hydration, the selection is absent or within 0..26 and no operation
\* fails or underflows.
C19_SelectionInRange ==
    /\ result # "panic"
    /\ list_state.selected # <<>> => list_state.selected[1] \in 0..(NumRegions - 1)

\* how many Resume Actions wait in the channel
Resumes(q) == Cardinality({i \in 1..Len(q) : q[i] = "Resume"})

\* try_recv() hands the Action a to its arm
Processes(a) == pc = "drain" /\ pc' = "update" /\ action' = a

C21_QuittingIsTerminal ==
    /\ [][should_quit => should_quit']_vars
    /\ [][should_quit => ~(pc = "check" /\ should_suspend /\ pc' = "wait_event")]_vars
    /\ should_quit ~> ~Running

\* a lookup returned one of the locations that match the query when there is
\* one, and None when there is none
Answers(found, matching) ==
    IF matching # {} THEN found # <<>> /\ found[1] \in matching
    ELSE found = <<>>

\* C22: a client that was built holds exactly 27 locations; a lookup by uid or
\* by name returns a location of the registry whose uid or name is the one asked
\* for when there is one and None otherwise; no lookup changes the registry.
C22_RegistryOf27 ==
    /\ [](run.op = "default" => Len(locations) = NumRegions)
    /\ [](decoded.uid # <<>> =>
             Answers(decoded.uid[1],
                     {r \in Locations(locations) : r.location_uid = input.uid[1]}))
    /\ [](decoded.name # <<>> =>
             Answers(decoded.name[1],
                     {r \in Locations(locations) : r.name = input.name[1]}))
    /\ [][run.op = "default" => locations' = locations]_vars

C22_Witness ==
    /\ Len(locations) = NumRegions
    /\ input.uid = <<3>> /\ decoded.uid = <<<<Location(1)>>>>
    /\ input.name = <<"kyiv">> /\ decoded.name = <<<<>>>>

\* try_recv hands the drain an Action other than the spawned task's Fetch
TakesAction == pc = "drain" /\ action = "null" /\ action' \notin {"null", "Fetch"}

\* C23: an Action taken by a drain was in the channel when that drain began:
\* what the drain itself produces (a Component's derived Action, the Refresh of
\* the Locale and Fetch arms) waits for a later drain.
C23_ProducedWaitForNextDrain == [][TakesAction => queued > 0]_vars

\* C24: a drain that has begun comes to its end (the flags are tested, or run
\* has returned), whatever the Components return from update.
C24_DrainTerminates == (pc = "drain") ~> (pc = "check" \/ ~Running)

\* C25: no Action taken from the channel is dropped: run does not return with
\* an Action in hand that the Components' update has not been given.
C25_EveryActionForwarded == ~Running => action = "null"

\* C26: an error met while an Action is handled (a failing fetch, locale
\* toggle, resize or terminal draw, a failing Component update) does not make
\* run return: run returns no such error.
C26_LoopSurvivesErrors == result \notin {"err_fetch", "err_arm", "err_update"}

\* the controller holds the write lock only here: between taking it and the
\* end of init, or of the Fetch arm
UnderGuard == {"init_set", "fetch_set", "fetch_merge", "fetch_refresh"}

\* C27: while run is under way the controller holds the write lock only inside
\* init and the Fetch arm after their await has completed: never at an await
\* (fetch_regions, the next event, fetch_alerts_string), never where a Component
\* is called (the arms of the drain, the update step).
C27_NoLockAcrossAwaitOrComponent ==
    /\ (Running /\ lock = "write") => pc \in UnderGuard
    /\ pc \in {"init", "wait_event", "fetch_await", "drain", "update"} => lock = "free"

C27_Witness ==
    /\ pc = "update"
    /\ action = "Fetch"
    /\ lock = "free"
    /\ alerts = TestBody
    /\ Statuses(regions) = FullMerge(snapPre, alerts)

\* the Refresh Actions in a channel
Refreshes(q) == Cardinality({i \in 1..Len(q) : q[i] = "Refresh"})

\* the store holds the string last fetched, applied to every region
HoldsFetched ==
    /\ alerts # <<>>
    /\ Len(alerts) = Len(regions)
    /\ Statuses(regions) = FullMerge(snapPre, alerts)

BothFlags == pc = "check" /\ should_suspend /\ should_quit

====
